---- MODULE Spec2Model ----
(***************************************************************************)
(* openlibrary/i18n/__init__.py: the translation catalog pipeline          *)
(* (extract -> seed -> sync -> validate -> compile) and the runtime        *)
(* resolver (gettext, ungettext, gettext_territory, lgettext) with its     *)
(* memoized loaders.                                                       *)
(*                                                                         *)
(* Files are modelled by their content: messages.pot, <locale>/messages.po *)
(* and <locale>/messages.mo.  The library calls the module makes (Babel's  *)
(* Catalog.add / Catalog.update / read_po / write_po / write_mo, difflib's *)
(* get_close_matches behind Catalog.update, gettext's GNUTranslations and  *)
(* web.memoize) are modelled by what they compute.                         *)
(***************************************************************************)
EXTENDS Integers, Sequences, FiniteSets, TLC

VARIABLES
    pot,            \* content of messages.pot, or NoFile
    dirs,           \* the locale directories that exist under root
    po,             \* po[l]: content of <l>/messages.po, or NoFile
    mo,             \* mo[l]: content of <l>/messages.mo, NoFile or Truncated
    lang,           \* web.ctx.lang, the active locale of the request
    memo_translations, \* cache of @web.memoize load_translations
    memo_locale,    \* cache of @web.memoize load_locale
    reads,          \* reads[l]: times this process opened <l>/messages.mo
    lazy,           \* the LazyObject created by lgettext, or NoLazy
    close_matches,  \* difflib.get_close_matches over the message ids: a
                    \* pure function, tabulated once when the run starts
    threads,        \* threads[t]: where request thread t stands in a call
                    \* of the memoized load_translations
    running,        \* running[l]: the thread holding web.memoize's lock of
                    \* key l, or Nobody
    last            \* what the last operation returned, printed or raised

vars == <<pot, dirs, po, mo, lang, memo_translations, memo_locale, reads,
          lazy, close_matches, threads, running, last>>

(***************************************************************************)
(* Universe of the model.                                                  *)
(***************************************************************************)
NoFile == [file |-> "missing"]
Truncated == [file |-> "empty"]  \* a messages.mo opened 'wb' and never written
None == [py |-> "None"]          \* Python's None
Unset == [cached |-> FALSE]      \* key not in a memoize cache
NoLazy == [py |-> "no object"]
\* The request threads of the serving process; a thread outside a call; a
\* lock of web.memoize that nobody holds.
Threads == {"t1", "t2"}
Idle == [pc |-> "idle"]
Nobody == "nobody"
NoFault == [at |-> "nowhere", locale |-> "-"]

\* Locale codes.  "fr" is a locale that gets a catalog directory; "de" is a
\* locale Babel knows that is requested in batches; "en" is the source
\* language, served without a catalog; "xx" is a code Babel does not know.
Locales == {"fr", "de"}
Langs == {"en", "fr", "xx"}
BabelLocales == {"en", "fr", "de"}

\* Message ids (lower case, no surrounding blanks).  "item" and "items"
\* are close for difflib, "book" is close to neither.
MsgIds == {"item", "items", "book"}
Chars(s) ==
    CASE s = "item"  -> <<"i", "t", "e", "m">>
      [] s = "items" -> <<"i", "t", "e", "m", "s">>
      [] s = "book"  -> <<"b", "o", "o", "k">>
      [] OTHER       -> <<>>
Alphabet == <<"b", "e", "i", "k", "m", "o", "s", "t">>

\* msgid_plural of a pluralizable message, and what a translator types.
PluralId(m) == "many " \o m
Translation(l, m, k) == IF k = 1 THEN l \o ":" \o m ELSE l \o ":many " \o m

Min(a, b) == IF a <= b THEN a ELSE b
Range(s) == {s[i] : i \in DOMAIN s}

\* distinct(): drop the later duplicates of a list, order kept.
RECURSIVE Distinct(_)
Distinct(s) ==
    IF s = <<>> THEN <<>>
    ELSE LET d == Distinct(SubSeq(s, 1, Len(s) - 1))
         IN  IF s[Len(s)] \in Range(d) THEN d ELSE Append(d, s[Len(s)])

(***************************************************************************)
(* difflib.get_close_matches(word, possibilities, 1, cutoff 0.6), as       *)
(* Catalog.update calls it: SequenceMatcher(a = candidate, b = word),      *)
(* ratio = 2 * matches / (len(a) + len(b)), best (ratio, candidate) wins.  *)
(***************************************************************************)
RECURSIVE CommonRun(_, _, _, _, _, _)
CommonRun(a, b, i, j, ahi, bhi) ==
    IF i <= ahi /\ j <= bhi /\ a[i] = b[j]
    THEN 1 + CommonRun(a, b, i + 1, j + 1, ahi, bhi)
    ELSE 0

\* find_longest_match over a[alo..ahi], b[blo..bhi] (inclusive): the longest
\* block, of those the one starting earliest in a, of those earliest in b.
LongestMatch(a, alo, ahi, b, blo, bhi) ==
    LET blocks == {[i |-> i, j |-> j, k |-> CommonRun(a, b, i, j, ahi, bhi)] :
                        i \in alo..ahi, j \in blo..bhi}
        better(x, y) == \/ x.k > y.k
                        \/ x.k = y.k /\ x.i < y.i
                        \/ x.k = y.k /\ x.i = y.i /\ x.j <= y.j
    IN  CHOOSE x \in blocks : \A y \in blocks : better(x, y)

\* get_matching_blocks: the longest block, then the same to its left and right.
RECURSIVE Matches(_, _, _, _, _, _)
Matches(a, alo, ahi, b, blo, bhi) ==
    IF alo > ahi \/ blo > bhi THEN 0
    ELSE LET m == LongestMatch(a, alo, ahi, b, blo, bhi)
         IN  IF m.k = 0 THEN 0
             ELSE m.k + Matches(a, alo, m.i - 1, b, blo, m.j - 1)
                      + Matches(a, m.i + m.k, ahi, b, m.j + m.k, bhi)

MatchCount(x, word) ==
    Matches(Chars(x), 1, Len(Chars(x)), Chars(word), 1, Len(Chars(word)))
TotalLen(x, word) == Len(Chars(x)) + Len(Chars(word))

\* ratio() >= 0.6, in integers: 2*M/T >= 6/10.
RatioAtLeastCutoff(x, word) ==
    TotalLen(x, word) > 0 /\ 10 * MatchCount(x, word) >= 3 * TotalLen(x, word)

\* Python's string order on the candidates (the tie-break of heapq.nlargest).
Rank(c) == CHOOSE i \in DOMAIN Alphabet : Alphabet[i] = c
RECURSIVE SeqLess(_, _)
SeqLess(a, b) ==
    IF a = <<>> THEN b # <<>>
    ELSE IF b = <<>> THEN FALSE
    ELSE IF a[1] = b[1] THEN SeqLess(Tail(a), Tail(b))
    ELSE Rank(a[1]) < Rank(b[1])

\* (score_x, x) >= (score_y, y) as Python compares the tuples.
ScoreGeq(x, y, word) ==
    LET sx == MatchCount(x, word) * TotalLen(y, word)
        sy == MatchCount(y, word) * TotalLen(x, word)
    IN  sx > sy \/ (sx = sy /\ (x = y \/ SeqLess(Chars(y), Chars(x))))

\* The set holding the best close match of word among the candidates, or {}.
get_close_matches(word, candidates) ==
    LET close == {x \in candidates : RatioAtLeastCutoff(x, word)}
    IN  {x \in close : \A y \in close : ScoreGeq(x, y, word)}

\* get_close_matches over the model's message ids, as a table.
CloseMatches ==
    [word \in MsgIds |->
        [candidates \in SUBSET MsgIds |-> get_close_matches(word, candidates)]]

(***************************************************************************)
(* Babel catalogs.  A message is                                           *)
(*   [id, pl, string, flags, locations, auto_comments, lineno]             *)
(* id: the msgid (the key of the message); pl: pluralizable, i.e. the id   *)
(* is the tuple (id, PluralId(id)); string: <<s>> for a plain string and   *)
(* <<s0, s1>> for the tuple of plural forms; lineno: 0 for Python's None,  *)
(* or the line read_po found the message at.  A catalog is                 *)
(*   [fuzzy, messages, obsolete]                                           *)
(* fuzzy: the flag of the header entry; messages, obsolete: the ordered    *)
(* dicts _messages and obsolete, as sequences in insertion order.          *)
(***************************************************************************)
EmptyPlural == <<"", "">>
num_plurals == Len(EmptyPlural)   \* no Plural-Forms header: Babel's default
IsTuple(string) == Len(string) > 1
\* Python truth of message.string: a non-empty str, or a non-empty tuple.
Truthy(string) == IsTuple(string) \/ string[1] # ""
Fuzzy(m) == "fuzzy" \in m.flags

Keys(msgs) == {msgs[i].id : i \in DOMAIN msgs}
Lookup(msgs, key) == msgs[CHOOSE i \in DOMAIN msgs : msgs[i].id = key]

\* OrderedDict assignment d[m.id] = m.
Put(msgs, m) ==
    IF m.id \in Keys(msgs)
    THEN [i \in DOMAIN msgs |-> IF msgs[i].id = m.id THEN m ELSE msgs[i]]
    ELSE Append(msgs, m)

\* Message(id, string=None, locations, auto_comments): an untranslated message.
Message(id, pl, locations, auto_comments) ==
    [id |-> id, pl |-> pl,
     string |-> IF pl THEN EmptyPlural ELSE <<"">>,
     flags |-> {},
     locations |-> Distinct(locations),
     auto_comments |-> Distinct(auto_comments),
     lineno |-> 0]

\* Catalog(project=..., copyright_holder=...): empty, header fuzzy by default.
NewCatalog == [fuzzy |-> TRUE, messages |-> <<>>, obsolete |-> <<>>]

\* Variant of Catalog.add: a known key is replaced by the new occurrence.
CatalogAddReplacing(catalog, message) ==
    IF message.id \in Keys(catalog.messages)
    THEN [catalog EXCEPT !.messages = Put(@, message)]
    ELSE [catalog EXCEPT !.messages = Append(@, message)]

\* Catalog.add -> Catalog.__setitem__: a new key is appended; a known key
\* gains the locations and comments (each without duplicates) and the flags,
\* and becomes plural when the new occurrence is.
CatalogAdd(catalog, message) ==
    IF message.id \in Keys(catalog.messages)
    THEN LET current == Lookup(catalog.messages, message.id)
             plural  == message.pl /\ ~current.pl
             merged  == [current EXCEPT
                  !.pl = IF plural THEN TRUE ELSE @,
                  !.string = IF plural THEN message.string ELSE @,
                  !.locations = Distinct(@ \o message.locations),
                  !.auto_comments = Distinct(@ \o message.auto_comments),
                  !.flags = @ \cup message.flags]
         IN  [catalog EXCEPT !.messages = Put(@, merged)]
    ELSE [catalog EXCEPT !.messages = Append(@, message)]

(***************************************************************************)
(* The textual form.  write_po keeps the header flag, the messages and the *)
(* obsolete messages (as "#~" entries) in order, the locations of each     *)
(* message sorted; it writes no line numbers.  read_po gives every message *)
(* the line it starts at: the header                                       *)
(* block comes first, then one block per message, so the line grows with   *)
(* the position (the block sizes are abstracted to one line each).         *)
(***************************************************************************)
\* sorted(message.locations) in write_po: by file name, then line number.
\* Filenames lists the file names in the order of Python's strings.
Filenames == <<"a.html", "b.py">>
FileRank(f) == CHOOSE i \in DOMAIN Filenames : Filenames[i] = f
LocationLess(a, b) ==
    \/ FileRank(a[1]) < FileRank(b[1])
    \/ FileRank(a[1]) = FileRank(b[1]) /\ a[2] < b[2]
RECURSIVE SortLocations(_)
SortLocations(locs) ==
    IF Len(locs) <= 1 THEN locs
    ELSE LET x == locs[Len(locs)]
             s == SortLocations(SubSeq(locs, 1, Len(locs) - 1))
             k == Cardinality({i \in DOMAIN s : ~LocationLess(x, s[i])})
         IN  SubSeq(s, 1, k) \o <<x>> \o SubSeq(s, k + 1, Len(s))

write_po(catalog) ==
    [fuzzy |-> catalog.fuzzy,
     messages |-> [i \in DOMAIN catalog.messages |->
                        [catalog.messages[i] EXCEPT
                            !.locations = SortLocations(@), !.lineno = 0]],
     obsolete |-> [i \in DOMAIN catalog.obsolete |->
                        [catalog.obsolete[i] EXCEPT
                            !.locations = SortLocations(@), !.lineno = 0]]]

read_po(file) ==
    [fuzzy |-> file.fuzzy,
     messages |-> [i \in DOMAIN file.messages |->
                        [file.messages[i] EXCEPT !.lineno = i + 1]],
     obsolete |-> [i \in DOMAIN file.obsolete |->
                        [file.obsolete[i] EXCEPT
                            !.lineno = Len(file.messages) + i + 1]]]

\* for message in catalog: the header first (no line number), then _messages.
HeaderMessage(catalog) ==
    [id |-> "", pl |-> FALSE, string |-> <<"">>,
     flags |-> IF catalog.fuzzy THEN {"fuzzy"} ELSE {},
     locations |-> <<>>, auto_comments |-> <<>>, lineno |-> 0]
Iterate(catalog) == <<HeaderMessage(catalog)>> \o catalog.messages

(***************************************************************************)
(* Catalog.update(template) with its defaults (fuzzy matching on).         *)
(***************************************************************************)
\* Variants of _merge: one that keeps the template's message as it is, one
\* that does not take over the old message's flags.
MergeFromTemplate(message, oldmsg, samekey) == message
MergeWithoutFlags(message, oldmsg, samekey) ==
    LET old == oldmsg.string
        reshape == IF message.pl THEN ~IsTuple(old) ELSE IsTuple(old)
        string == IF message.pl /\ ~IsTuple(old) THEN <<old[1], "">>
                  ELSE IF ~message.pl /\ IsTuple(old) THEN <<old[1]>>
                  ELSE old
    IN  [message EXCEPT
            !.string = string,
            !.flags = @ \cup (IF ~samekey \/ reshape THEN {"fuzzy"} ELSE {})]

\* _merge(message, oldkey, newkey): the template's message with the old
\* message's string and flags; fuzzy when the key changed or the string had
\* to be reshaped to the template's plurality.
MergeMessage(message, oldmsg, samekey) ==
    LET old == oldmsg.string
        reshape == IF message.pl
                   THEN ~IsTuple(old) \/ Len(old) # num_plurals
                   ELSE IsTuple(old)
        string == IF message.pl /\ ~IsTuple(old) THEN <<old[1], "">>
                  ELSE IF ~message.pl /\ IsTuple(old) THEN <<old[1]>>
                  ELSE old
        fuzzy == ~samekey \/ reshape
    IN  [message EXCEPT
            !.string = string,
            !.flags = (@ \cup oldmsg.flags) \cup
                      (IF fuzzy THEN {"fuzzy"} ELSE {})]

\* Variant of fuzzy_candidates: every old key, translated or not.
AllCandidates(messages) == Keys(messages)

\* fuzzy_candidates: the keys of the old messages whose string is truthy.
FuzzyCandidates(messages) ==
    {messages[i].id :
        i \in {j \in DOMAIN messages : Truthy(messages[j].string)}}

\* The loop over the template: merged messages so far, the old keys not yet
\* matched exactly (remaining) and those used by a fuzzy match.
RECURSIVE UpdateLoop(_, _, _, _)
UpdateLoop(messages, template, i, acc) ==
    IF i > Len(template) THEN acc
    ELSE LET message == template[i]
             key == message.id
             matches == close_matches[key][FuzzyCandidates(messages)]
             step ==
               IF key \in Keys(messages)
               THEN [acc EXCEPT
                       !.merged = Put(@, MergeMessage(message,
                                            Lookup(messages, key), TRUE)),
                       !.remaining = @ \ {key}]
               ELSE IF matches # {}
               THEN LET newkey == CHOOSE k \in matches : TRUE
                    IN  [acc EXCEPT
                           !.merged = Put(@, MergeMessage(message,
                                            Lookup(messages, newkey), FALSE)),
                           !.fuzzy_matches = @ \cup {newkey}]
               ELSE [acc EXCEPT !.merged = Put(@, message)]
         IN  UpdateLoop(messages, template, i + 1, step)

\* Variant of the loop over remaining: nothing is kept as obsolete.
RetireNothing(obsolete, messages, i, drop) == obsolete

\* for msgid in remaining: if msgid not in fuzzy_matches: obsolete[msgid] = ...
RECURSIVE Retire(_, _, _, _)
Retire(obsolete, messages, i, drop) ==
    IF i > Len(messages) THEN obsolete
    ELSE Retire(IF messages[i].id \in drop THEN obsolete
                ELSE Put(obsolete, messages[i]),
                messages, i + 1, drop)

CatalogUpdate(catalog, template) ==
    LET done == UpdateLoop(catalog.messages, template.messages, 1,
                    [merged |-> <<>>, remaining |-> Keys(catalog.messages),
                     fuzzy_matches |-> {}])
        gone == (Keys(catalog.messages) \ done.remaining)
                \cup done.fuzzy_matches
    IN  [fuzzy |-> catalog.fuzzy,
         messages |-> done.merged,
         obsolete |-> Retire(catalog.obsolete, catalog.messages, 1, gone)]

(***************************************************************************)
(* The binary form.  write_mo keeps the messages that have a string and    *)
(* are not fuzzy; an empty plural form is written as the id of that form.  *)
(* A messages.mo is the set of its (msgid, msgstr) pairs; GNUTranslations  *)
(* parses it into a dict keyed by msgid (n = -1) or by (msgid, n).         *)
(***************************************************************************)
MoEntry(m) ==
    IF m.pl
    THEN [msgid |-> <<m.id, PluralId(m.id)>>,
          msgstr |-> [k \in DOMAIN m.string |->
                        IF m.string[k] = ""
                        THEN <<m.id, PluralId(m.id)>>[Min(k - 1, 1) + 1]
                        ELSE m.string[k]]]
    ELSE [msgid |-> <<m.id>>, msgstr |-> m.string]

write_mo(catalog) ==
    [entries |->
        {MoEntry(catalog.messages[i]) :
            i \in {j \in DOMAIN catalog.messages :
                     /\ Truthy(catalog.messages[j].string)
                     /\ ~Fuzzy(catalog.messages[j])}}]

\* Translations(open(mo_path, 'rb')): the _catalog dict.
TranslationKeys(file) ==
    UNION {IF Len(e.msgid) > 1
           THEN {[id |-> e.msgid[1], n |-> k - 1] : k \in DOMAIN e.msgstr}
           ELSE {[id |-> e.msgid[1], n |-> -1]} : e \in file.entries}
Translations(file) ==
    [catalog |->
        [key \in TranslationKeys(file) |->
            LET e == CHOOSE x \in file.entries : x.msgid[1] = key.id
            IN  IF key.n = -1 THEN e.msgstr[1] ELSE e.msgstr[key.n + 1]]]

(***************************************************************************)
(* Offline operations.  A fault is what the environment makes fail in one  *)
(* call: reading the template, or reading the catalog / writing the binary *)
(* of one locale during compilation.                                       *)
(***************************************************************************)
\* _compile_translation(po, mo): [mo, raised].  read_po comes before
\* open(mo, 'wb'), which empties the file before write_mo fills it.
compile_translation(po_file, mo_file, fault) ==
    IF fault = "compile_read" THEN [mo |-> mo_file, raised |-> TRUE]
    ELSE IF fault = "compile_write" THEN [mo |-> Truncated, raised |-> TRUE]
    ELSE [mo |-> write_mo(read_po(po_file)), raised |-> FALSE]

\* The loop of compile_translations; an exception leaves the loop.
RECURSIVE CompileLoop(_, _, _, _)
CompileLoop(ls, i, st, fault) ==
    IF i > Len(ls) \/ st.raised # "" THEN st
    ELSE LET l == ls[i]
             f == IF fault.locale = l THEN fault.at ELSE "nowhere"
             r == compile_translation(st.po[l], st.mo[l], f)
         IN  CompileLoop(ls, i + 1,
                IF st.po[l] # NoFile
                THEN [st EXCEPT !.mo[l] = r.mo,
                                !.compiled = IF r.raised THEN @ ELSE @ \cup {l},
                                !.raised = IF r.raised THEN f ELSE "",
                                !.failed = IF r.raised THEN l ELSE @]
                ELSE st,
                fault)

\* Variant of the loop of update_translations: a locale without a catalog
\* ends the loop.
RECURSIVE SyncLoopHalting(_, _, _, _)
SyncLoopHalting(ls, i, st, template) ==
    IF i > Len(ls) \/ st.missing # {} THEN st
    ELSE LET l == ls[i]
         IN  SyncLoopHalting(ls, i + 1,
                IF st.po[l] # NoFile
                THEN [st EXCEPT
                        !.po[l] = write_po(CatalogUpdate(read_po(@), template)),
                        !.updated = @ \cup {l}]
                ELSE [st EXCEPT !.missing = @ \cup {l}],
                template)

\* The loop of update_translations over the locales.
RECURSIVE SyncLoop(_, _, _, _)
SyncLoop(ls, i, st, template) ==
    IF i > Len(ls) THEN st
    ELSE LET l == ls[i]
         IN  SyncLoop(ls, i + 1,
                IF st.po[l] # NoFile
                THEN [st EXCEPT
                        !.po[l] = write_po(CatalogUpdate(read_po(@), template)),
                        !.updated = @ \cup {l}]
                ELSE [st EXCEPT !.missing = @ \cup {l}],
                template)

\* get_locales(): the directories holding a messages.po, in listdir's order.
Orders(S) == {s \in UNION {[1..n -> S] : n \in {Cardinality(S)}} :
                 \A i, j \in DOMAIN s : i # j => s[i] # s[j]}
get_locales == Orders({l \in dirs : po[l] # NoFile})

\* extract_messages(dirs): one Catalog.add per extracted occurrence
\* (filename, lineno, message, comments), then write_po over messages.pot.
RECURSIVE AddAll(_, _, _)
AddAll(catalog, occs, i) ==
    IF i > Len(occs) THEN catalog
    ELSE AddAll(CatalogAdd(catalog,
                    Message(occs[i].message, occs[i].pl,
                            <<<<occs[i].filename, occs[i].lineno>>>>,
                            occs[i].comments)),
                occs, i + 1)

extract_messages(occs) ==
    /\ pot' = write_po(AddAll(NewCatalog, occs, 1))
    /\ last' = [op |-> "extract_messages", extracted |-> occs]
    /\ UNCHANGED <<threads, running,
                   close_matches, dirs, po, mo, lang, memo_translations,
                   memo_locale, reads, lazy>>

\* Variants of generate_po: one that copies the template over a catalog
\* that exists, one that raises when the directory exists without a catalog.
generate_po_as(args, overwrite, refuse) ==
    /\ IF args = <<>>
       THEN /\ last' = [op |-> "generate_po", args |-> args,
                        existed |-> FALSE,
                        printed |-> "Add failed", raised |-> FALSE]
            /\ UNCHANGED <<dirs, po>>
       ELSE LET l == args[1] IN
            IF l \in dirs /\ po[l] # NoFile /\ ~overwrite
            THEN /\ last' = [op |-> "generate_po", args |-> args,
                             existed |-> TRUE,
                             printed |-> "already exists", raised |-> FALSE]
                 /\ UNCHANGED <<dirs, po>>
            ELSE /\ dirs' = dirs \cup {l}
                 /\ IF pot = NoFile \/ (refuse /\ l \in dirs)
                    THEN /\ last' = [op |-> "generate_po", args |-> args,
                                     existed |-> l \in dirs,
                                     printed |-> "", raised |-> TRUE]
                         /\ UNCHANGED po
                    ELSE /\ po' = [po EXCEPT ![l] = pot]
                         /\ last' = [op |-> "generate_po", args |-> args,
                                     existed |-> l \in dirs,
                                     printed |-> "File created",
                                     raised |-> FALSE]
    /\ UNCHANGED <<threads, running,
                   close_matches, pot, mo, lang, memo_translations,
                   memo_locale, reads, lazy>>
generate_po_overwriting(args) == generate_po_as(args, TRUE, FALSE)
generate_po_refusing(args) == generate_po_as(args, FALSE, TRUE)

\* generate_po(args): shutil.copy(pot_src, po_dest) unless the catalog
\* exists; os.mkdir first when the directory is missing.  The copy raises
\* when there is no messages.pot.
generate_po(args) ==
    /\ IF args = <<>>
       THEN /\ last' = [op |-> "generate_po", args |-> args,
                        existed |-> FALSE,
                        printed |-> "Add failed", raised |-> FALSE]
            /\ UNCHANGED <<dirs, po>>
       ELSE LET l == args[1] IN
            IF l \in dirs /\ po[l] # NoFile
            THEN /\ last' = [op |-> "generate_po", args |-> args,
                             existed |-> TRUE,
                             printed |-> "already exists", raised |-> FALSE]
                 /\ UNCHANGED <<dirs, po>>
            ELSE /\ dirs' = dirs \cup {l}
                 /\ IF pot = NoFile
                    THEN /\ last' = [op |-> "generate_po", args |-> args,
                                     existed |-> l \in dirs,
                                     printed |-> "", raised |-> TRUE]
                         /\ UNCHANGED po
                    ELSE /\ po' = [po EXCEPT ![l] = pot]
                         /\ last' = [op |-> "generate_po", args |-> args,
                                     existed |-> l \in dirs,
                                     printed |-> "File created",
                                     raised |-> FALSE]
    /\ UNCHANGED <<threads, running,
                   close_matches, pot, mo, lang, memo_translations,
                   memo_locale, reads, lazy>>

\* compile_translations(locales).
compile_translations(locales, fault) ==
    \E ls \in (IF locales # <<>> THEN {locales} ELSE get_locales) :
        LET st == CompileLoop(ls, 1,
                    [po |-> po, mo |-> mo, compiled |-> {}, raised |-> "",
                     failed |-> "-"],
                    fault)
        IN  /\ mo' = st.mo
            /\ last' = [op |-> "compile_translations", locales |-> ls,
                        compiled |-> st.compiled,
                        raised |-> st.raised, failed |-> st.failed]
            /\ UNCHANGED <<threads, running,
                           close_matches, pot, dirs, po, lang,
                           memo_translations, memo_locale, reads, lazy>>

\* Variants of update_translations: one that opens the template only after
\* the loop (a missing template merges as an empty one before the call
\* raises), one that compiles the catalogs as they were before the loop.
update_translations_as(locales, fault, template_first, compile_last) ==
    \E ls \in (IF locales # <<>> THEN {locales} ELSE get_locales) :
        LET absent == pot = NoFile \/ fault.at = "read_pot"
            template == IF absent THEN read_po(write_po(NewCatalog))
                        ELSE read_po(pot)
            synced == IF absent /\ template_first
                      THEN [po |-> po, updated |-> {}, missing |-> {}]
                      ELSE SyncLoop(ls, 1,
                             [po |-> po, updated |-> {}, missing |-> {}],
                             template)
            st == IF absent
                  THEN [po |-> synced.po, mo |-> mo, compiled |-> {},
                        raised |-> "read_pot", failed |-> "-"]
                  ELSE CompileLoop(ls, 1,
                         [po |-> IF compile_last THEN synced.po ELSE po,
                          mo |-> mo, compiled |-> {}, raised |-> "",
                          failed |-> "-"],
                         fault)
        IN  /\ po' = synced.po
            /\ mo' = st.mo
            /\ last' = [op |-> "update_translations", locales |-> ls,
                        before |-> po, updated |-> synced.updated,
                        missing |-> synced.missing,
                        compiled |-> st.compiled, raised |-> st.raised,
                        failed |-> st.failed]
            /\ UNCHANGED <<threads, running,
                           close_matches, pot, dirs, lang,
                           memo_translations, memo_locale, reads, lazy>>
update_translations_template_last(locales, fault) ==
    update_translations_as(locales, fault, FALSE, TRUE)
update_translations_compile_first(locales, fault) ==
    update_translations_as(locales, fault, TRUE, FALSE)

\* update_translations(locales): read the template, merge it into every
\* requested catalog that exists, then compile_translations on the same list.
update_translations(locales, fault) ==
    \E ls \in (IF locales # <<>> THEN {locales} ELSE get_locales) :
        IF pot = NoFile \/ fault.at = "read_pot"
        THEN /\ last' = [op |-> "update_translations", locales |-> ls,
                         before |-> po, updated |-> {},
                         missing |-> {}, compiled |-> {},
                         raised |-> "read_pot", failed |-> "-"]
             /\ UNCHANGED <<threads, running,
                            close_matches, pot, dirs, po, mo, lang,
                            memo_translations, memo_locale, reads, lazy>>
        ELSE LET synced == SyncLoop(ls, 1,
                             [po |-> po, updated |-> {}, missing |-> {}],
                             read_po(pot))
                 st == CompileLoop(ls, 1,
                         [po |-> synced.po, mo |-> mo, compiled |-> {},
                          raised |-> "", failed |-> "-"],
                         fault)
             IN  /\ po' = synced.po
                 /\ mo' = st.mo
                 /\ last' = [op |-> "update_translations", locales |-> ls,
                             before |-> po, updated |-> synced.updated,
                             missing |-> synced.missing,
                             compiled |-> st.compiled, raised |-> st.raised,
                             failed |-> st.failed]
                 /\ UNCHANGED <<threads, running,
                                close_matches, pot, dirs, lang,
                                memo_translations, memo_locale, reads, lazy>>

\* Variant of _validate_catalog: the generic error for every fuzzy message.
ValidationErrorsGeneric(messages, locale, i) ==
    [j \in 1..Cardinality({k \in DOMAIN messages : Fuzzy(messages[k])}) |->
        [kind |-> "File is fuzzy"]]

\* _validate_catalog(catalog, locale): one error per fuzzy message, with the
\* line and the string when the message has a line number.
RECURSIVE ValidationErrors(_, _, _)
ValidationErrors(messages, locale, i) ==
    IF i > Len(messages) THEN <<>>
    ELSE LET message == messages[i]
             here == IF ~Fuzzy(message) THEN <<>>
                     ELSE IF message.lineno # 0
                     THEN <<[kind |-> "message is fuzzy", locale |-> locale,
                             lineno |-> message.lineno,
                             string |-> message.string]>>
                     ELSE <<[kind |-> "File is fuzzy"]>>
         IN  here \o ValidationErrors(messages, locale, i + 1)

validate_catalog(catalog, locale) ==
    ValidationErrors(Iterate(catalog), locale, 1)

\* validate_translations(args).
validate_translations(args) ==
    /\ IF args = <<>>
       THEN last' = [op |-> "validate_translations", args |-> args,
                     result |-> FALSE, errors |-> <<>>,
                     printed |-> "Must include locale code"]
       ELSE IF po[args[1]] = NoFile
       THEN last' = [op |-> "validate_translations", args |-> args,
                     result |-> FALSE, errors |-> <<>>,
                     printed |-> "does not exist"]
       ELSE LET errors == validate_catalog(read_po(po[args[1]]), args[1])
            IN  last' = [op |-> "validate_translations", args |-> args,
                         result |-> Len(errors) = 0, errors |-> errors,
                         printed |-> IF Len(errors) = 0 THEN "are valid"
                                     ELSE "Validation failed"]
    /\ UNCHANGED <<threads, running,
                   close_matches, pot, dirs, po, mo, lang, memo_translations,
                   memo_locale, reads, lazy>>

(***************************************************************************)
(* What translators do to a working catalog between the operations: type   *)
(* the translation of a form, mark or unmark a message as fuzzy, remove    *)
(* the "#, fuzzy" line of the header.                                      *)
(***************************************************************************)
Translate(l, i, k) ==
    /\ po[l] # NoFile
    /\ i \in DOMAIN po[l].messages
    /\ k \in DOMAIN po[l].messages[i].string
    /\ po[l].messages[i].string[k] = ""
    /\ po' = [po EXCEPT ![l].messages[i].string[k] =
                            Translation(l, po[l].messages[i].id, k)]
    /\ last' = [op |-> "edit"]
    /\ UNCHANGED <<threads, running,
                   close_matches, pot, dirs, mo, lang, memo_translations,
                   memo_locale, reads, lazy>>

SetFuzzy(l, i, b) ==
    /\ po[l] # NoFile
    /\ i \in DOMAIN po[l].messages
    /\ Fuzzy(po[l].messages[i]) # b
    /\ po' = [po EXCEPT ![l].messages[i].flags =
                            IF b THEN @ \cup {"fuzzy"} ELSE @ \ {"fuzzy"}]
    /\ last' = [op |-> "edit"]
    /\ UNCHANGED <<threads, running,
                   close_matches, pot, dirs, mo, lang, memo_translations,
                   memo_locale, reads, lazy>>

RemoveHeaderFuzzy(l) ==
    /\ po[l] # NoFile
    /\ po[l].fuzzy
    /\ po' = [po EXCEPT ![l].fuzzy = FALSE]
    /\ last' = [op |-> "edit"]
    /\ UNCHANGED <<threads, running,
                   close_matches, pot, dirs, mo, lang, memo_translations,
                   memo_locale, reads, lazy>>

(***************************************************************************)
(* The runtime resolver.  web.memoize keeps what the function returned,    *)
(* None included, per argument; a call that raises stores nothing.         *)
(***************************************************************************)
MoAt(l) == IF l \in Locales THEN mo[l] ELSE NoFile

\* load_translations(lang) behind @web.memoize:
\* [value, raised, memo, reads] after the call.
load_translations(l) ==
    IF memo_translations[l] # Unset
    THEN [value |-> memo_translations[l].value, raised |-> FALSE,
          memo |-> memo_translations, reads |-> reads]
    ELSE IF MoAt(l) = NoFile
    THEN [value |-> None, raised |-> FALSE,
          memo |-> [memo_translations EXCEPT
                        ![l] = [cached |-> TRUE, value |-> None]],
          reads |-> reads]
    ELSE IF MoAt(l) = Truncated
    THEN [value |-> None, raised |-> TRUE,
          memo |-> memo_translations,
          reads |-> [reads EXCEPT ![l] = @ + 1]]
    ELSE [value |-> Translations(MoAt(l)), raised |-> FALSE,
          memo |-> [memo_translations EXCEPT
                        ![l] = [cached |-> TRUE,
                                value |-> Translations(MoAt(l))]],
          reads |-> [reads EXCEPT ![l] = @ + 1]]

\* load_translations(lang) behind @web.memoize, step by step in a request
\* thread t.  Memoize.__call__ looks the key up in its cache; on a miss it
\* takes the lock of the key (blocking), runs the function, stores what it
\* returned and releases the lock; then it returns what the cache holds for
\* the key.  A function that raises stores nothing.  The thread keeps what
\* it found when it entered (seen, reads0, and whether every other thread
\* was outside a call while the key was cached: later).
Outside(t) == threads[t].pc \in {"idle", "done"}
Failed == [py |-> "exception"]
Enter(t, l) ==
    /\ Outside(t)
    /\ threads' = [threads EXCEPT ![t] =
            [pc |-> "check", lang |-> l, ran |-> FALSE, value |-> Unset,
             later |-> /\ memo_translations[l] # Unset
                       /\ \A u \in Threads \ {t} : Outside(u),
             seen |-> memo_translations[l], reads0 |-> reads[l],
             out |-> "", result |-> Unset]]
    /\ UNCHANGED <<running, close_matches, pot, dirs, po, mo, lang,
                   memo_translations, memo_locale, reads, lazy, last>>

Check(t) ==
    /\ threads[t].pc = "check"
    /\ threads' = [threads EXCEPT ![t].pc =
            IF memo_translations[threads[t].lang] # Unset THEN "return"
            ELSE "acquire"]
    /\ UNCHANGED <<running, close_matches, pot, dirs, po, mo, lang,
                   memo_translations, memo_locale, reads, lazy, last>>

\* Variant of the lock: a thread that finds it taken does not wait.
AcquireNonBlocking(t) ==
    /\ threads[t].pc = "acquire"
    /\ IF running[threads[t].lang] = Nobody
       THEN /\ running' = [running EXCEPT ![threads[t].lang] = t]
            /\ threads' = [threads EXCEPT ![t].pc = "load"]
       ELSE /\ threads' = [threads EXCEPT ![t].pc = "return"]
            /\ UNCHANGED running
    /\ UNCHANGED <<close_matches, pot, dirs, po, mo, lang,
                   memo_translations, memo_locale, reads, lazy, last>>

Acquire(t) ==
    /\ threads[t].pc = "acquire"
    /\ running[threads[t].lang] = Nobody
    /\ running' = [running EXCEPT ![threads[t].lang] = t]
    /\ threads' = [threads EXCEPT ![t].pc = "load"]
    /\ UNCHANGED <<close_matches, pot, dirs, po, mo, lang,
                   memo_translations, memo_locale, reads, lazy, last>>

\* The body of load_translations: None without a messages.mo, the parsed
\* file otherwise; an empty file makes Translations raise, and the lock is
\* released on the way out.
Load(t) ==
    /\ threads[t].pc = "load"
    /\ LET l == threads[t].lang IN
        IF MoAt(l) = NoFile
        THEN /\ threads' = [threads EXCEPT ![t].pc = "store",
                                ![t].ran = TRUE, ![t].value = None]
             /\ UNCHANGED <<running, reads>>
        ELSE IF MoAt(l) = Truncated
        THEN /\ threads' = [threads EXCEPT ![t].pc = "done",
                                ![t].ran = TRUE, ![t].value = Failed,
                                ![t].out = "raised"]
             /\ running' = [running EXCEPT ![l] = Nobody]
             /\ reads' = [reads EXCEPT ![l] = @ + 1]
        ELSE /\ threads' = [threads EXCEPT ![t].pc = "store",
                                ![t].ran = TRUE,
                                ![t].value = Translations(MoAt(l))]
             /\ reads' = [reads EXCEPT ![l] = @ + 1]
             /\ UNCHANGED running
    /\ UNCHANGED <<close_matches, pot, dirs, po, mo, lang,
                   memo_translations, memo_locale, lazy, last>>

Store(t) ==
    /\ threads[t].pc = "store"
    /\ memo_translations' = [memo_translations EXCEPT ![threads[t].lang] =
            [cached |-> TRUE, value |-> threads[t].value]]
    /\ running' = [running EXCEPT ![threads[t].lang] = Nobody]
    /\ threads' = [threads EXCEPT ![t].pc = "return"]
    /\ UNCHANGED <<close_matches, pot, dirs, po, mo, lang, memo_locale,
                   reads, lazy, last>>

\* return self.cache[key][0]: a KeyError when the cache has no such key.
Return(t) ==
    /\ threads[t].pc = "return"
    /\ LET c == threads[t] IN
        threads' = [threads EXCEPT ![t] =
            IF memo_translations[c.lang] # Unset
            THEN [c EXCEPT !.pc = "done", !.out = "returned",
                           !.result = memo_translations[c.lang].value]
            ELSE [c EXCEPT !.pc = "done", !.out = "raised"]]
    /\ UNCHANGED <<running, close_matches, pot, dirs, po, mo, lang,
                   memo_translations, memo_locale, reads, lazy, last>>

\* load_locale(lang) behind @web.memoize: babel.Locale(lang), or None after
\* UnknownLocaleError.
load_locale(l) ==
    IF memo_locale[l] # Unset THEN memo_locale[l].value
    ELSE IF l \in BabelLocales THEN [locale |-> l] ELSE None

\* locale.territories.get(code, code)
TerritoryCodes == {"FR"}
territories_get(locale, code) ==
    IF code \in TerritoryCodes THEN locale.locale \o ":" \o code ELSE code

\* GNUTranslations.gettext: the entry of the message; an interpreter that
\* has the plural fallback then tries the entry of its first plural form.
ugettext(translations, string, plural_fallback) ==
    LET catalog == translations.catalog
        plain == [id |-> string, n |-> -1]
        first == [id |-> string, n |-> 0]
    IN  IF plain \in DOMAIN catalog THEN catalog[plain]
        ELSE IF plural_fallback /\ first \in DOMAIN catalog THEN catalog[first]
        ELSE string

\* Variant of ngettext: the singular whenever the entry is missing.
ungettext_singular(translations, s1, s2, n) ==
    LET catalog == translations.catalog
        key == [id |-> s1, n |-> IF n # 1 THEN 1 ELSE 0]
    IN  IF key \in DOMAIN catalog THEN catalog[key] ELSE s1

\* GNUTranslations.ngettext with the default plural rule n != 1.
plural(n) == IF n # 1 THEN 1 ELSE 0
ungettext_catalog(translations, s1, s2, n) ==
    LET catalog == translations.catalog
        key == [id |-> s1, n |-> plural(n)]
    IN  IF key \in DOMAIN catalog THEN catalog[key]
        ELSE IF n = 1 THEN s1 ELSE s2

\* value % args: the model's messages hold no conversion specifier, so a
\* tuple of positional arguments is left over (TypeError) and a dict of
\* named arguments is ignored.
Format(value, args) ==
    IF args = "positional" THEN [value |-> value, raised |-> TRUE]
    ELSE [value |-> value, raised |-> FALSE]

\* Variant of GetText.__call__ without the "or string" default.
GetTextWithoutDefault(l, string, args, plural_fallback) ==
    LET loaded == load_translations(l)
        found == IF loaded.value = None THEN ""
                 ELSE ugettext(loaded.value, string, plural_fallback)
        out == Format(found, args)
    IN  [value |-> IF loaded.raised THEN "" ELSE out.value,
         raised |-> loaded.raised \/ out.raised,
         memo |-> loaded.memo, reads |-> loaded.reads]

\* Variant of GetText.__call__: the entry of the catalog, empty when the
\* catalog has none.
GetTextCatalogOnly(l, string, args, plural_fallback) ==
    LET loaded == load_translations(l)
        plain == [id |-> string, n |-> -1]
        found == IF loaded.value = None THEN string
                 ELSE IF plain \in DOMAIN loaded.value.catalog
                 THEN loaded.value.catalog[plain]
                 ELSE ""
        out == Format(found, args)
    IN  [value |-> IF loaded.raised THEN "" ELSE out.value,
         raised |-> loaded.raised \/ out.raised,
         memo |-> loaded.memo, reads |-> loaded.reads]

\* GetText.__call__(string, *args, **kwargs) under web.ctx.lang = l:
\* [value, raised, memo, reads].
GetTextCall(l, string, args, plural_fallback) ==
    LET loaded == load_translations(l)
        found == IF loaded.value = None THEN ""
                 ELSE ugettext(loaded.value, string, plural_fallback)
        value == IF found # "" THEN found ELSE string
        out == Format(value, args)
    IN  [value |-> IF loaded.raised THEN "" ELSE out.value,
         raised |-> loaded.raised \/ out.raised,
         memo |-> loaded.memo, reads |-> loaded.reads]

gettext(string, args, plural_fallback) ==
    LET r == GetTextCall(lang, string, args, plural_fallback)
    IN  /\ memo_translations' = r.memo
        /\ reads' = r.reads
        /\ last' = [op |-> "gettext", lang |-> lang, string |-> string,
                    args |-> args, value |-> r.value, raised |-> r.raised]
        /\ UNCHANGED <<threads, running,
                       close_matches, pot, dirs, po, mo, lang, memo_locale,
                       lazy>>

\* ungettext(s1, s2, _n, *a, **kw)
ungettext(s1, s2, n, args) ==
    LET loaded == load_translations(lang)
        found == IF loaded.value = None THEN ""
                 ELSE ungettext_catalog(loaded.value, s1, s2, n)
        value == IF found # "" THEN found
                 ELSE IF n = 1 THEN s1 ELSE s2
        out == Format(value, args)
    IN  /\ memo_translations' = loaded.memo
        /\ reads' = loaded.reads
        /\ last' = [op |-> "ungettext", lang |-> lang, s1 |-> s1, s2 |-> s2,
                    n |-> n, args |-> args,
                    value |-> IF loaded.raised THEN "" ELSE out.value,
                    raised |-> loaded.raised \/ out.raised]
        /\ UNCHANGED <<threads, running,
                       close_matches, pot, dirs, po, mo, lang, memo_locale,
                       lazy>>

\* gettext_territory(code): locale.territories of what load_locale returned;
\* on None the attribute access raises AttributeError.
gettext_territory(code) ==
    LET locale == load_locale(lang)
    IN  /\ memo_locale' = [memo_locale EXCEPT
                              ![lang] = [cached |-> TRUE, value |-> locale]]
        /\ last' = [op |-> "gettext_territory", lang |-> lang, code |-> code,
                    value |-> IF locale = None THEN ""
                              ELSE territories_get(locale, code),
                    raised |-> locale = None]
        /\ UNCHANGED <<threads, running,
                       close_matches, pot, dirs, po, mo, lang,
                       memo_translations, reads, lazy>>

\* lgettext(string, *args, **kwargs): a LazyObject holding the call, not its
\* result.  born is the locale active at creation; the object does not hold
\* it, the model keeps it to tell the two locales apart.
lgettext(string, args) ==
    /\ lazy' = [string |-> string, args |-> args, born |-> lang]
    /\ last' = [op |-> "lgettext", lang |-> lang, string |-> string]
    /\ UNCHANGED <<threads, running,
                   close_matches, pot, dirs, po, mo, lang, memo_translations,
                   memo_locale, reads>>

\* Variant of the creator: resolves under the locale the object was made in.
CreatorBornLang(object) == object.born

\* The locale self._creator() resolves under: web.ctx.lang when it is called.
CreatorLang(object) == lang

\* web.safestr, repr, + other, other + : what the conversion makes of the
\* value the creator returned.
Converted(how, value) ==
    CASE how = "str"  -> value
      [] how = "repr" -> "'" \o value \o "'"
      [] how = "add"  -> value \o "!"
      [] how = "radd" -> "!" \o value

\* LazyObject.__str__, __repr__, __add__, __radd__.
Convert(how, plural_fallback) ==
    /\ lazy # NoLazy
    /\ LET r == GetTextCall(CreatorLang(lazy), lazy.string, lazy.args,
                            plural_fallback)
       IN  /\ memo_translations' = r.memo
           /\ reads' = r.reads
           /\ last' = [op |-> "convert", how |-> how, lang |-> lang,
                       value |-> IF r.raised THEN ""
                                 ELSE Converted(how, r.value),
                       raised |-> r.raised]
    /\ UNCHANGED <<threads, running,
                   close_matches, pot, dirs, po, mo, lang, memo_locale, lazy>>

\* i18n_loadhook: the request sets web.ctx.lang.
SetLang(l) ==
    /\ lang' = l
    /\ last' = [op |-> "request", lang |-> l]
    /\ UNCHANGED <<threads, running,
                   close_matches, pot, dirs, po, mo, memo_translations,
                   memo_locale, reads, lazy>>

\* A compilation running beside the serving process, in its two steps:
\* read_po and open(mo, 'wb') leave an empty messages.mo ...
CompileOpen(l) ==
    /\ po[l] # NoFile
    /\ mo[l] # Truncated
    /\ mo' = [mo EXCEPT ![l] = Truncated]
    /\ last' = [op |-> "compile", at |-> "open"]
    /\ UNCHANGED <<threads, running,
                   close_matches, pot, dirs, po, lang, memo_translations,
                   memo_locale, reads, lazy>>

\* ... until write_mo and close fill it.
CompileWrite(l) ==
    /\ po[l] # NoFile
    /\ mo[l] = Truncated
    /\ mo' = [mo EXCEPT ![l] = write_mo(read_po(po[l]))]
    /\ last' = [op |-> "compile", at |-> "close"]
    /\ UNCHANGED <<threads, running,
                   close_matches, pot, dirs, po, lang, memo_translations,
                   memo_locale, reads, lazy>>

(***************************************************************************)
(* The maintenance pipeline on a checkout: the catalogs are versioned, the *)
(* template is rebuilt by extraction.  "fr" has no directory, an empty     *)
(* directory, or a catalog that was seeded from an earlier template and    *)
(* worked on by translators; "de" has nothing.  The run extracts once and  *)
(* seeds, synchronizes and compiles in any order.                          *)
(***************************************************************************)
MaxOccurrences == 2

\* Plain occurrences of every message id, and plural occurrences of "item".
Occurrences ==
    {[filename |-> "a.html", lineno |-> 1, message |-> m, pl |-> FALSE,
      comments |-> <<>>] : m \in MsgIds}
    \cup {[filename |-> "a.html", lineno |-> 1, message |-> "item",
           pl |-> TRUE, comments |-> <<>>]}
OccurrenceLists == UNION {[1..n -> Occurrences] : n \in 1..MaxOccurrences}

\* What extract_messages can leave in messages.pot.
Templates == {write_po(AddAll(NewCatalog, occs, 1)) : occs \in OccurrenceLists}

\* The catalogs translators make of a seeded template: any forms typed, any
\* messages marked fuzzy, the header's fuzzy line as given.
Forms(file) ==
    UNION {{<<i, k>> : k \in DOMAIN file.messages[i].string} :
                i \in DOMAIN file.messages}
Translated(l, file, typed, marked, header) ==
    [file EXCEPT
        !.fuzzy = header,
        !.messages = [i \in DOMAIN @ |->
            [@[i] EXCEPT
                !.string = [k \in DOMAIN @ |->
                              IF <<i, k>> \in typed
                              THEN Translation(l, file.messages[i].id, k)
                              ELSE ""],
                !.flags = IF i \in marked THEN {"fuzzy"} ELSE {}]]]
WorkingCatalogs(l, file) ==
    {Translated(l, file, typed, marked, FALSE) :
        typed \in SUBSET Forms(file),
        marked \in SUBSET DOMAIN file.messages}

LocaleLists == {<<>>, <<"de", "fr">>}
LocaleArgs == {<<>>, <<"fr">>, <<"de">>}
SeedArgs == {<<>>, <<"fr">>}

Init ==
    /\ pot = NoFile
    /\ \E c \in {NoFile}
                \cup UNION {WorkingCatalogs("fr", t) : t \in Templates} :
            po = [l \in Locales |-> IF l = "fr" THEN c ELSE NoFile]
    /\ dirs \in {{}, {"fr"}}
    /\ po["fr"] # NoFile => "fr" \in dirs
    /\ mo = [l \in Locales |-> NoFile]
    /\ lang = "en"
    /\ memo_translations = [l \in Langs |-> Unset]
    /\ memo_locale = [l \in Langs |-> Unset]
    /\ reads = [l \in Langs |-> 0]
    /\ lazy = NoLazy
    /\ close_matches = CloseMatches
    /\ threads = [t \in Threads |-> Idle]
    /\ running = [l \in Langs |-> Nobody]
    /\ last = [op |-> "start"]

Extract == pot = NoFile /\ \E occs \in OccurrenceLists : extract_messages(occs)
Seed == \E args \in SeedArgs : generate_po(args)
Sync == \E ls \in LocaleLists : update_translations(ls, NoFault)
Compile == \E ls \in LocaleLists : compile_translations(ls, NoFault)

Next == Extract \/ Seed \/ Sync \/ Compile

Spec == Init /\ [][Next]_vars

(***************************************************************************)
(* Properties of synchronization.  After update_translations, last.before  *)
(* holds the catalogs as they were, po the merged catalogs as persisted    *)
(* and mo their compilation; the template is pot.                          *)
(***************************************************************************)
SyncedLocales ==
    IF last.op = "update_translations" THEN last.updated ELSE {}
Has(file, m) == file # NoFile /\ m \in Keys(file.messages)
Entry(file, m) == Lookup(file.messages, m)
Before(l) == last.before[l]
InBoth(l, m) == Has(Before(l), m) /\ Has(pot, m)
Retiree(l, m) == Has(Before(l), m) /\ ~Has(pot, m)
Newcomer(l, m) == ~Has(Before(l), m) /\ Has(pot, m)
Untranslated(e) == \A k \in DOMAIN e.string : e.string[k] = ""
Compiled(l, m) == \E e \in mo[l].entries : e.msgid[1] = m

\* The existing entries a newcomer can be matched to: those holding a
\* translation, and every pluralizable entry (its tuple of forms is truthy
\* even when all forms are empty); and the close match difflib picks.
Carriers(l) ==
    {m \in MsgIds : /\ Has(Before(l), m)
                    /\ \/ Entry(Before(l), m).pl
                       \/ Entry(Before(l), m).string[1] # ""}
CloseMatch(l, m) == close_matches[m][Carriers(l)]
MatchedBy(l, m) ==
    {n \in MsgIds : Newcomer(l, n) /\ m \in CloseMatch(l, n)}

\* C1: merge preserves content.  For every synchronized locale and every
\* message id M that the existing catalog translates to T and the template
\* still contains, the merged catalog persisted by update_translations has
\* M with the translation T; when M's plurality is the same in the template
\* and in the catalog, all its plural forms are kept as well.
MergePreservesContent ==
    \A l \in SyncedLocales : \A m \in MsgIds :
        (InBoth(l, m) /\ Entry(Before(l), m).string[1] # "") =>
            /\ Has(po[l], m)
            /\ Entry(po[l], m).string[1] = Entry(Before(l), m).string[1]
            /\ Entry(pot, m).pl = Entry(Before(l), m).pl =>
                    Entry(po[l], m).string = Entry(Before(l), m).string

\* A sync has kept the translation of a message that is in both.
MergePreservesContentSeen ==
    \E l \in SyncedLocales : \E m \in MsgIds :
        /\ InBoth(l, m)
        /\ Entry(Before(l), m).string[1] = Translation(l, m, 1)
        /\ Has(po[l], m)
        /\ Entry(po[l], m).string[1] = Translation(l, m, 1)

\* C2 (as the code has it): after update_translations of a locale, a
\* message id that was only in the existing catalog is not among the
\* messages of the merged catalog and not in the compiled messages.mo, but
\* the persisted messages.po keeps it as an obsolete entry, unless a
\* newcomer of the template took over its translation as a fuzzy match.
MergeRetiresToObsolete ==
    \A l \in SyncedLocales : \A m \in MsgIds :
        Retiree(l, m) =>
            /\ ~Has(po[l], m)
            /\ ~Compiled(l, m)
            /\ m \in Keys(po[l].obsolete) <=> MatchedBy(l, m) = {}

\* A sync has moved a translated retiree to the obsolete entries.
MergeRetiresToObsoleteSeen ==
    \E l \in SyncedLocales : \E m \in MsgIds :
        /\ Retiree(l, m)
        /\ Entry(Before(l), m).string[1] # ""
        /\ ~Has(po[l], m)
        /\ m \in Keys(po[l].obsolete)
        /\ Lookup(po[l].obsolete, m).string = Entry(Before(l), m).string

\* C2 as stated: a retiree is absent from what is persisted to the working
\* catalog, messages and obsolete entries alike, and from the compiled file.
MergeDropsRetirees ==
    \A l \in SyncedLocales : \A m \in MsgIds :
        Retiree(l, m) =>
            /\ ~Has(po[l], m)
            /\ m \notin Keys(po[l].obsolete)
            /\ ~Compiled(l, m)

\* C3 (as the code has it): after update_translations of a locale, a
\* message id that is only in the template is in the merged catalog; it is
\* untranslated and not fuzzy when difflib finds no close match for it among
\* the existing entries that hold a translation or are pluralizable, and
\* otherwise it carries the translation of its close match and is fuzzy.
MergeAddsNewcomersOrMatches ==
    \A l \in SyncedLocales : \A m \in MsgIds :
        Newcomer(l, m) =>
            /\ Has(po[l], m)
            /\ IF CloseMatch(l, m) = {}
               THEN Untranslated(Entry(po[l], m)) /\ ~Fuzzy(Entry(po[l], m))
               ELSE \E n \in CloseMatch(l, m) :
                        /\ Fuzzy(Entry(po[l], m))
                        /\ Entry(po[l], m).string[1] =
                                Entry(Before(l), n).string[1]

\* A sync has added one newcomer empty and another as a fuzzy match.
MergeAddsNewcomersOrMatchesSeen ==
    \E l \in SyncedLocales : \E m, n \in MsgIds :
        /\ Newcomer(l, m) /\ CloseMatch(l, m) = {}
        /\ Untranslated(Entry(po[l], m)) /\ ~Fuzzy(Entry(po[l], m))
        /\ Newcomer(l, n) /\ CloseMatch(l, n) # {}
        /\ Fuzzy(Entry(po[l], n)) /\ ~Untranslated(Entry(po[l], n))

\* C3 as stated: every newcomer is in the merged catalog with an empty
\* translation and not fuzzy, whatever the existing catalog contained.
MergeAddsNewcomers ==
    \A l \in SyncedLocales : \A m \in MsgIds :
        Newcomer(l, m) =>
            /\ Has(po[l], m)
            /\ Untranslated(Entry(po[l], m))
            /\ ~Fuzzy(Entry(po[l], m))

\* C4 (as the code has it): for a message id in both the template and the
\* existing catalog, update_translations never clears the fuzzy flag, and it
\* sets the flag exactly when the message is pluralizable in one of the two
\* and not in the other: the merged entry is fuzzy iff the existing entry
\* was fuzzy or the plurality differs.
SyncKeepsOrSetsFuzzy ==
    \A l \in SyncedLocales : \A m \in MsgIds :
        InBoth(l, m) =>
            (Fuzzy(Entry(po[l], m)) <=>
                \/ Fuzzy(Entry(Before(l), m))
                \/ Entry(pot, m).pl # Entry(Before(l), m).pl)

\* A sync has marked fuzzy an entry that was not, and kept another fuzzy.
SyncKeepsOrSetsFuzzySeen ==
    \E l \in SyncedLocales : \E m, n \in MsgIds :
        /\ InBoth(l, m) /\ ~Fuzzy(Entry(Before(l), m))
        /\ Entry(pot, m).pl # Entry(Before(l), m).pl
        /\ Fuzzy(Entry(po[l], m))
        /\ InBoth(l, n) /\ Fuzzy(Entry(Before(l), n))
        /\ Entry(pot, n).pl = Entry(Before(l), n).pl
        /\ Fuzzy(Entry(po[l], n))

\* C4 as stated: the fuzzy flag of an entry in both is after the sync what
\* it was before.
SyncNeverChangesFuzzy ==
    \A l \in SyncedLocales : \A m \in MsgIds :
        InBoth(l, m) =>
            (Fuzzy(Entry(po[l], m)) <=> Fuzzy(Entry(Before(l), m)))

(***************************************************************************)
(* Properties of seeding.  After generate_po, last.args is its argument,   *)
(* last.existed whether the locale directory was there, last.printed what  *)
(* it printed and last.raised whether the copy raised.                     *)
(***************************************************************************)
Seeded(l) == last.op = "generate_po" /\ last.args = <<l>>

\* C14 (as stated): generate_po on a locale whose directory exists without
\* a working catalog fails and creates no working catalog.
SeedRefusesBareDirectory ==
    \A l \in Locales :
        (Seeded(l) /\ last.existed /\ last.printed # "already exists") =>
            last.raised /\ po[l] = NoFile

\* C14 (amended): generate_po leaves a working catalog that exists alone
\* and says so; it creates a missing one as a copy of the template, in a
\* directory that exists as in one it creates first; only a missing
\* template makes it raise, and then no working catalog is created.
SeedCreatesWhenMissing ==
    [][\A l \in Locales :
        (last'.op = "generate_po" /\ last'.args = <<l>>) =>
            IF po[l] # NoFile
            THEN /\ po'[l] = po[l]
                 /\ last'.printed = "already exists" /\ ~last'.raised
            ELSE /\ l \in dirs' /\ last'.existed = (l \in dirs)
                 /\ IF pot = NoFile
                    THEN last'.raised /\ po'[l] = NoFile
                    ELSE /\ ~last'.raised
                         /\ last'.printed = "File created"
                         /\ po'[l] = pot]_vars

\* The directory of "fr" was there without a catalog, and generate_po made
\* the catalog of the template.
SeedCreatesWhenMissingSeen ==
    /\ Seeded("fr") /\ last.existed
    /\ last.printed = "File created" /\ ~last.raised
    /\ pot # NoFile /\ po["fr"] = pot

\* C18: seeding never overwrites.  In every step, a working catalog that
\* exists is left as it is unless the step is a sync or a translator's
\* edit; generate_po never changes it.
SeedNeverOverwrites ==
    [][\A l \in Locales :
        po[l] # NoFile =>
            /\ po'[l] # po[l] => last'.op \in {"update_translations", "edit"}
            /\ last'.op = "generate_po" => po'[l] = po[l]]_vars

\* generate_po was called on "fr" over a catalog that differs from the
\* template and holds a translation and a fuzzy entry.
SeedNeverOverwritesSeen ==
    /\ Seeded("fr") /\ last.printed = "already exists"
    /\ pot # NoFile /\ po["fr"] # pot
    /\ \E i \in DOMAIN po["fr"].messages :
            po["fr"].messages[i].string[1] # ""
    /\ \E i \in DOMAIN po["fr"].messages : Fuzzy(po["fr"].messages[i])

(***************************************************************************)
(* Translators at work on a freshly seeded "fr" catalog, validating as     *)
(* they go.                                                                *)
(***************************************************************************)
InitValidate ==
    /\ pot \in Templates
    /\ po = [l \in Locales |-> IF l = "fr" THEN pot ELSE NoFile]
    /\ dirs = {"fr"}
    /\ mo = [l \in Locales |-> NoFile]
    /\ lang = "en"
    /\ memo_translations = [l \in Langs |-> Unset]
    /\ memo_locale = [l \in Langs |-> Unset]
    /\ reads = [l \in Langs |-> 0]
    /\ lazy = NoLazy
    /\ close_matches = CloseMatches
    /\ threads = [t \in Threads |-> Idle]
    /\ running = [l \in Langs |-> Nobody]
    /\ last = [op |-> "start"]

Type == \E i \in 1..MaxOccurrences, k \in 1..num_plurals : Translate("fr", i, k)
Mark == \E i \in 1..MaxOccurrences, b \in BOOLEAN : SetFuzzy("fr", i, b)
Unmark == RemoveHeaderFuzzy("fr")
Validate == \E args \in LocaleArgs : validate_translations(args)

NextValidate == Type \/ Mark \/ Unmark \/ Validate

SpecValidate == InitValidate /\ [][NextValidate]_vars

(***************************************************************************)
(* Properties of validation.  validate_translations leaves the catalog as  *)
(* it is, so after it po[l] is the catalog that was validated.             *)
(***************************************************************************)
Validated == IF last.op = "validate_translations" /\ last.args # <<>>
             THEN {last.args[1]} ELSE {}
FuzzyEntries(file) == {i \in DOMAIN file.messages : Fuzzy(file.messages[i])}
LineOf(file, i) == read_po(file).messages[i].lineno
LineErrors(errors) ==
    {j \in DOMAIN errors : errors[j].kind = "message is fuzzy"}
FileErrors(errors) ==
    {j \in DOMAIN errors : errors[j].kind = "File is fuzzy"}

\* C10: validation gate.  validate_translations of a locale returns True
\* iff the locale's messages.po exists and neither its header nor any of
\* its messages is fuzzy; it produces exactly one error per fuzzy entry:
\* for each fuzzy message exactly one error holding the line number of that
\* message, and for a fuzzy header (which has no line number) exactly one
\* generic "File is fuzzy" error.
ValidationGate ==
    \A l \in Validated :
        /\ last.result <=>
                /\ po[l] # NoFile
                /\ ~po[l].fuzzy
                /\ FuzzyEntries(po[l]) = {}
        /\ po[l] = NoFile => last.errors = <<>>
        /\ po[l] # NoFile =>
            /\ \A i \in FuzzyEntries(po[l]) :
                  Cardinality({j \in LineErrors(last.errors) :
                      last.errors[j].lineno = LineOf(po[l], i)}) = 1
            /\ Cardinality(LineErrors(last.errors)) =
                    Cardinality(FuzzyEntries(po[l]))
            /\ Cardinality(FileErrors(last.errors)) =
                    (IF po[l].fuzzy THEN 1 ELSE 0)
            /\ Len(last.errors) = Cardinality(LineErrors(last.errors))
                                  + Cardinality(FileErrors(last.errors))

\* A catalog whose only fuzzy entry is a message was validated: one error,
\* holding the line of that message.
ValidationGateSeen ==
    \E l \in Validated :
        /\ po[l] # NoFile /\ ~po[l].fuzzy
        /\ Cardinality(FuzzyEntries(po[l])) = 1
        /\ ~last.result
        /\ Len(last.errors) = 1
        /\ \E i \in FuzzyEntries(po[l]) :
                last.errors[1].lineno = LineOf(po[l], i)

(***************************************************************************)
(* The serving process.  It starts with empty caches over the "fr" catalog *)
(* of "book" and plural "item", fully translated, and a messages.mo that   *)
(* is missing or was compiled when only "book" was translated.  Requests   *)
(* set the locale and resolve strings; a compilation goes on beside them.  *)
(***************************************************************************)
MaxCount == 2
MaxReads == 2

ServedOccurrences ==
    <<[filename |-> "a.html", lineno |-> 1, message |-> "book", pl |-> FALSE,
       comments |-> <<>>],
      [filename |-> "a.html", lineno |-> 1, message |-> "item", pl |-> TRUE,
       comments |-> <<>>]>>
ServedTemplate == write_po(AddAll(NewCatalog, ServedOccurrences, 1))
ServedCatalog ==
    Translated("fr", ServedTemplate, Forms(ServedTemplate), {}, FALSE)
EarlierCatalog == Translated("fr", ServedTemplate, {<<1, 1>>}, {}, FALSE)

Messages == MsgIds
FormatArgs == {"none", "positional", "named"}
Conversions == {"str", "repr", "add", "radd"}

InitServing ==
    /\ pot = ServedTemplate
    /\ dirs = {"fr"}
    /\ po = [l \in Locales |-> IF l = "fr" THEN ServedCatalog ELSE NoFile]
    /\ mo \in {[l \in Locales |-> IF l = "fr" THEN m ELSE NoFile] :
                    m \in {NoFile, write_mo(read_po(EarlierCatalog))}}
    /\ lang = "en"
    /\ memo_translations = [l \in Langs |-> Unset]
    /\ memo_locale = [l \in Langs |-> Unset]
    /\ reads = [l \in Langs |-> 0]
    /\ lazy = NoLazy
    /\ close_matches = CloseMatches
    /\ threads = [t \in Threads |-> Idle]
    /\ running = [l \in Langs |-> Nobody]
    /\ last = [op |-> "start"]

\* The file reads of one locale that the model follows.
InBudget == reads[lang] < MaxReads

Request == \E l \in Langs : SetLang(l)
Resolve ==
    /\ InBudget
    /\ \E s \in Messages, a \in FormatArgs, fb \in BOOLEAN : gettext(s, a, fb)
ResolvePlural ==
    /\ InBudget
    /\ \E s \in Messages, n \in 0..MaxCount, a \in FormatArgs :
            ungettext(s, PluralId(s), n, a)
Recompile == CompileOpen("fr") \/ CompileWrite("fr")

NextServing == Request \/ Resolve \/ ResolvePlural \/ Recompile

SpecServing == InitServing /\ [][NextServing]_vars

(***************************************************************************)
(* Properties of resolution.  After a lookup that returned, the cache      *)
(* holds for the active locale the value the lookup used.                  *)
(***************************************************************************)
Cached(l) == memo_translations[l] # Unset
NoCatalog(l) == Cached(l) /\ memo_translations[l].value = None
Lacks(l, key) ==
    /\ Cached(l)
    /\ memo_translations[l].value # None
    /\ key \notin DOMAIN memo_translations[l].value.catalog
Uncompiled == Langs \ Locales

\* C5: resolution fallback.  GetText.__call__ without format arguments
\* returns the message itself, and raises nothing, whenever the catalog
\* loaded for the active locale has no entry for the message (neither plain
\* nor as the singular of a plural entry) or the locale has no compiled
\* catalog; a locale code that has no messages.mo, known to Babel or not,
\* always resolves that way.
ResolutionFallback ==
    (last.op = "gettext" /\ last.args = "none") =>
        /\ (\/ NoCatalog(last.lang)
            \/ /\ Lacks(last.lang, [id |-> last.string, n |-> -1])
               /\ Lacks(last.lang, [id |-> last.string, n |-> 0]))
           => (last.value = last.string /\ ~last.raised)
        /\ last.lang \in Uncompiled =>
                (last.value = last.string /\ ~last.raised)

\* Both cases were resolved: a message the loaded "fr" catalog lacks ...
ResolutionFallbackSeen ==
    /\ last.op = "gettext" /\ last.args = "none"
    /\ last.lang = "fr"
    /\ Lacks("fr", [id |-> last.string, n |-> -1])
    /\ Lacks("fr", [id |-> last.string, n |-> 0])
    /\ last.value = last.string
    \* ... after a lookup under the unknown code had found no catalog.
    /\ NoCatalog("xx")

\* C7: plural fallback.  ungettext without format arguments returns s1
\* when the count is 1 and s2 for every other count, 0 included, whenever
\* the active locale has no compiled catalog or the catalog loaded for it
\* has no entry for that plural form of s1.
PluralFallback ==
    (last.op = "ungettext" /\ last.args = "none") =>
        ((\/ NoCatalog(last.lang)
          \/ Lacks(last.lang, [id |-> last.s1, n |-> plural(last.n)]))
         => /\ ~last.raised
            /\ last.value = IF last.n = 1 THEN last.s1 ELSE last.s2)

\* A count of 0 fell back to s2 under a loaded catalog without the entry.
PluralFallbackSeen ==
    /\ last.op = "ungettext" /\ last.args = "none"
    /\ last.n = 0
    /\ Lacks(last.lang, [id |-> last.s1, n |-> 1])
    /\ last.value = last.s2

\* C9 as stated: load once.  Over any sequence of lookups and compilations
\* the messages.mo of a locale is opened at most once by the process.
LoadOnce == \A l \in Langs : reads[l] <= 1

(***************************************************************************)
(* Deferred strings and territory names in the serving process, over a     *)
(* messages.mo that is missing or complete.                                *)
(***************************************************************************)
InitLazy ==
    /\ pot = ServedTemplate
    /\ dirs = {"fr"}
    /\ po = [l \in Locales |-> IF l = "fr" THEN ServedCatalog ELSE NoFile]
    /\ mo \in {[l \in Locales |-> IF l = "fr" THEN m ELSE NoFile] :
                    m \in {NoFile, write_mo(read_po(ServedCatalog))}}
    /\ lang = "en"
    /\ memo_translations = [l \in Langs |-> Unset]
    /\ memo_locale = [l \in Langs |-> Unset]
    /\ reads = [l \in Langs |-> 0]
    /\ lazy = NoLazy
    /\ close_matches = CloseMatches
    /\ threads = [t \in Threads |-> Idle]
    /\ running = [l \in Langs |-> Nobody]
    /\ last = [op |-> "start"]

Defer == \E s \in Messages : lgettext(s, "none")
Consume == \E how \in Conversions, fb \in BOOLEAN : Convert(how, fb)
Territory == \E code \in TerritoryCodes \cup {"ZZ"} : gettext_territory(code)

NextLazy == Request \/ Defer \/ Consume \/ Territory

SpecLazy == InitLazy /\ [][NextLazy]_vars

(***************************************************************************)
(* Properties of deferred strings and territory names.                     *)
(***************************************************************************)
\* What load_translations gives for a locale in this process.
Loaded(l) ==
    IF memo_translations[l] # Unset THEN memo_translations[l].value
    ELSE IF MoAt(l) = NoFile THEN None
    ELSE Translations(MoAt(l))
\* What GetText.__call__ makes of a string under a locale.
Resolved(l, string) ==
    {IF Loaded(l) = None THEN string ELSE ugettext(Loaded(l), string, fb) :
        fb \in BOOLEAN}

\* C8: lazy re-evaluation.  The object lgettext returns holds the call and
\* no resolved value; every conversion (str, repr, +, reversed +) gives the
\* conversion of what GetText.__call__ returns under the locale that is
\* active when the conversion happens, whatever locale was active when the
\* object was created.
LazyReevaluation ==
    /\ lazy # NoLazy => DOMAIN lazy = {"string", "args", "born"}
    /\ last.op = "convert" =>
        /\ ~last.raised
        /\ last.value \in {Converted(last.how, v) :
                                v \in Resolved(lang, lazy.string)}

\* An object made under "en" was converted under "fr" to the translation.
LazyReevaluationSeen ==
    /\ last.op = "convert" /\ last.how = "str"
    /\ lazy # NoLazy /\ lazy.born = "en" /\ lazy.string = "book"
    /\ lang = "fr"
    /\ last.value = Translation("fr", "book", 1)

\* C6 as stated: gettext_territory never raises, and gives the code itself
\* when the locale or the territory code is not recognized.
TerritoryNeverFails ==
    last.op = "gettext_territory" =>
        /\ ~last.raised
        /\ (last.lang \notin BabelLocales \/ last.code \notin TerritoryCodes)
                => last.value = last.code

(***************************************************************************)
(* Batches under failure.  "fr" and "de" hold catalogs made of an earlier  *)
(* template (only "book"), or "de" holds none; each may have a binary      *)
(* compiled earlier; the template was rebuilt or is missing.  Every batch  *)
(* sync and batch compile meets any one fault of the environment.          *)
(***************************************************************************)
EarlierOccurrences ==
    <<[filename |-> "a.html", lineno |-> 1, message |-> "book", pl |-> FALSE,
       comments |-> <<>>]>>
EarlierTemplate == write_po(AddAll(NewCatalog, EarlierOccurrences, 1))
EarlierCatalogs(l) ==
    {Translated(l, EarlierTemplate, typed, {}, FALSE) :
        typed \in SUBSET Forms(EarlierTemplate)}
EarlierBinaries(l) ==
    {NoFile, write_mo(read_po(Translated(l, EarlierTemplate, {}, {}, FALSE)))}

LocaleBatches == {<<>>, <<"fr", "de">>, <<"de", "fr">>}
Faults ==
    {NoFault, [at |-> "read_pot", locale |-> "-"]}
    \cup {[at |-> a, locale |-> l] :
            a \in {"compile_read", "compile_write"}, l \in Locales}

InitBatch ==
    /\ pot \in {NoFile, ServedTemplate}
    /\ \E fr \in EarlierCatalogs("fr"),
          de \in {NoFile} \cup EarlierCatalogs("de") :
            po = [l \in Locales |-> IF l = "fr" THEN fr ELSE de]
    /\ dirs = {"fr", "de"}
    /\ \E fr \in EarlierBinaries("fr"), de \in EarlierBinaries("de") :
            mo = [l \in Locales |-> IF l = "fr" THEN fr ELSE de]
    /\ po["de"] = NoFile => mo["de"] = NoFile
    /\ lang = "en"
    /\ memo_translations = [l \in Langs |-> Unset]
    /\ memo_locale = [l \in Langs |-> Unset]
    /\ reads = [l \in Langs |-> 0]
    /\ lazy = NoLazy
    /\ close_matches = CloseMatches
    /\ threads = [t \in Threads |-> Idle]
    /\ running = [l \in Langs |-> Nobody]
    /\ last = [op |-> "start"]

SyncBatch ==
    \E ls \in LocaleBatches, f \in Faults : update_translations(ls, f)
CompileBatch ==
    \E ls \in LocaleBatches, f \in Faults : compile_translations(ls, f)

NextBatch == SyncBatch \/ CompileBatch

SpecBatch == InitBatch /\ [][NextBatch]_vars

(***************************************************************************)
(* Properties of batches.  After a batch, last.locales is the list it ran  *)
(* over, last.raised what it raised ("" when it returned) and last.failed  *)
(* the locale whose compilation raised.                                    *)
(***************************************************************************)
Batch == last.op \in {"compile_translations", "update_translations"}
CompileRaised == Batch /\ last.raised \in {"compile_read", "compile_write"}
Listed == IF Batch THEN Range(last.locales) ELSE {}
CompilationOf(l) == write_mo(read_po(po[l]))

\* C11 (as stated): after a batch in which compiling one locale raised,
\* every other locale of the batch that has a working catalog has been
\* compiled: its binary is the compilation of its catalog.
BatchCompileIsolated ==
    CompileRaised =>
        \A l \in Listed \ {last.failed} :
            po[l] # NoFile =>
                l \in last.compiled /\ mo[l] = CompilationOf(l)

\* C12 (as stated): a compilation that raises leaves the binary of its
\* locale as it was before the call.
CompileAtomic ==
    [][CompileRaised' => mo'[last'.failed] = mo[last'.failed]]_vars

Merged(l) == write_po(CatalogUpdate(read_po(Before(l)), read_po(pot)))
Synced == last.op = "update_translations" /\ last.raised # "read_pot"

\* C13: sync of an uninitialized locale is recoverable.  After a batch
\* sync that read the template, every listed locale without a working
\* catalog is reported and has neither a working catalog nor a binary,
\* and every listed locale with one holds the merge of its catalog with
\* the template and, the compilations raising nothing, its compilation.
UninitializedLocaleRecoverable ==
    Synced =>
        \A l \in Listed :
            IF Before(l) = NoFile
            THEN l \in last.missing /\ po[l] = NoFile /\ mo[l] = NoFile
            ELSE /\ l \in last.updated
                 /\ po[l] = Merged(l)
                 /\ last.raised = "" =>
                        l \in last.compiled /\ mo[l] = CompilationOf(l)

\* "de", first in the batch, had no catalog; "fr" after it got "item"
\* merged in and compiled.
UninitializedLocaleRecoverableSeen ==
    /\ Synced /\ last.raised = ""
    /\ last.locales = <<"de", "fr">>
    /\ last.missing = {"de"} /\ po["de"] = NoFile /\ mo["de"] = NoFile
    /\ last.updated = {"fr"}
    /\ ~Has(Before("fr"), "item") /\ Has(po["fr"], "item")
    /\ Compiled("fr", "item")

\* C16: sync-then-compile ordering.  When a batch sync returns, every
\* synchronized locale holds the merged catalog and its binary is the
\* compilation of that merged catalog.
SyncThenCompile ==
    (Synced /\ last.raised = "") =>
        \A l \in last.updated :
            /\ po[l] = Merged(l)
            /\ mo[l] = write_mo(read_po(Merged(l)))

\* Both locales were refreshed by the sync, and the binary of each differs
\* from the compilation of the catalog as it was.
SyncThenCompileSeen ==
    /\ Synced /\ last.raised = ""
    /\ last.updated = {"fr", "de"}
    /\ \A l \in last.updated :
            /\ po[l] # Before(l)
            /\ mo[l] = CompilationOf(l)
            /\ mo[l] # write_mo(read_po(Before(l)))

\* C20: sync without a template changes nothing.  A batch sync that finds
\* the template missing or unreadable raises and leaves every working
\* catalog and every binary as it was.
SyncWithoutTemplate ==
    [][(last'.op = "update_translations" /\ last'.raised = "read_pot")
            => po' = po /\ mo' = mo]_vars

\* A batch sync over both locales raised on the missing template while
\* "fr" had a catalog and a binary.
SyncWithoutTemplateSeen ==
    /\ last.op = "update_translations" /\ last.raised = "read_pot"
    /\ pot = NoFile
    /\ last.locales = <<"fr", "de">>
    /\ po["fr"] # NoFile /\ mo["fr"] # NoFile
    /\ last.updated = {} /\ last.compiled = {}

(***************************************************************************)
(* Rebuilding the template.  The extraction finds "book" and "item" in two *)
(* files, in any order, with or without a translator comment; a template   *)
(* of an earlier extraction may be there.                                  *)
(***************************************************************************)
MaxExtracted == 3

ExtractedOccurrences ==
    {[filename |-> "a.html", lineno |-> 1, message |-> "book", pl |-> FALSE,
      comments |-> <<"a title">>],
     [filename |-> "b.py", lineno |-> 2, message |-> "book", pl |-> FALSE,
      comments |-> <<"a title">>],
     [filename |-> "a.html", lineno |-> 2, message |-> "book", pl |-> FALSE,
      comments |-> <<>>],
     [filename |-> "b.py", lineno |-> 1, message |-> "item", pl |-> FALSE,
      comments |-> <<>>],
     [filename |-> "a.html", lineno |-> 1, message |-> "item", pl |-> TRUE,
      comments |-> <<"a count">>]}
ExtractedLists ==
    UNION {[1..n -> ExtractedOccurrences] : n \in 1..MaxExtracted}
FormerTemplates ==
    {NoFile, ServedTemplate,
     write_po(AddAll(NewCatalog,
        <<[filename |-> "a.html", lineno |-> 1, message |-> "items",
           pl |-> FALSE, comments |-> <<>>]>>, 1))}

InitExtract ==
    /\ pot \in FormerTemplates
    /\ dirs = {}
    /\ po = [l \in Locales |-> NoFile]
    /\ mo = [l \in Locales |-> NoFile]
    /\ lang = "en"
    /\ memo_translations = [l \in Langs |-> Unset]
    /\ memo_locale = [l \in Langs |-> Unset]
    /\ reads = [l \in Langs |-> 0]
    /\ lazy = NoLazy
    /\ close_matches = CloseMatches
    /\ threads = [t \in Threads |-> Idle]
    /\ running = [l \in Langs |-> Nobody]
    /\ last = [op |-> "start"]

Rebuild == \E occs \in ExtractedLists : extract_messages(occs)

NextExtract == Rebuild

SpecExtract == InitExtract /\ [][NextExtract]_vars

(***************************************************************************)
(* Properties of the template.  After extract_messages, last.extracted is  *)
(* the sequence of occurrences it went through.                            *)
(***************************************************************************)
Extracted == IF last.op = "extract_messages" THEN last.extracted ELSE <<>>
ExtractedIds == {Extracted[i].message : i \in DOMAIN Extracted}
OccurrencesOf(m) == {i \in DOMAIN Extracted : Extracted[i].message = m}
LocationAt(i) == <<Extracted[i].filename, Extracted[i].lineno>>
FirstAt(loc, m) ==
    CHOOSE i \in OccurrencesOf(m) :
        /\ LocationAt(i) = loc
        /\ \A j \in OccurrencesOf(m) : LocationAt(j) = loc => i <= j
NoDuplicates(s) == \A a, b \in DOMAIN s : a # b => s[a] # s[b]

\* The template holds one entry for each extracted id and no other; the
\* entry has the locations of the occurrences of the id and their comments,
\* each once, no translation and no fuzzy flag, and is plural when an
\* occurrence is.
TemplateContent ==
    /\ pot # NoFile
    /\ Keys(pot.messages) = ExtractedIds
    /\ pot.obsolete = <<>>
    /\ \A m \in ExtractedIds :
        /\ Cardinality({i \in DOMAIN pot.messages :
                            pot.messages[i].id = m}) = 1
        /\ LET e == Entry(pot, m)
           IN  /\ Range(e.locations) =
                        {LocationAt(i) : i \in OccurrencesOf(m)}
               /\ NoDuplicates(e.locations)
               /\ Range(e.auto_comments) =
                        UNION {Range(Extracted[i].comments) :
                                    i \in OccurrencesOf(m)}
               /\ NoDuplicates(e.auto_comments)
               /\ ~Fuzzy(e) /\ Untranslated(e)
               /\ e.pl = (\E i \in OccurrencesOf(m) : Extracted[i].pl)

\* C15 (as stated): the template build.  After extract_messages the
\* template is as above, and the locations of every entry stand in the
\* order in which the occurrences were extracted, the first one first.
TemplateBuildFirstFirst ==
    last.op = "extract_messages" =>
        /\ TemplateContent
        /\ \A m \in ExtractedIds :
            LET locs == Entry(pot, m).locations
            IN  \A a, b \in DOMAIN locs :
                    a < b => FirstAt(locs[a], m) < FirstAt(locs[b], m)

\* C15 (amended): the template build.  After extract_messages the template
\* is as above, whatever template was there before; the locations of every
\* entry stand sorted by file name and line number, and the header of the
\* file carries the fuzzy flag of a new catalog.
TemplateBuild ==
    last.op = "extract_messages" =>
        /\ TemplateContent
        /\ pot.fuzzy
        /\ \A m \in ExtractedIds :
            LET locs == Entry(pot, m).locations
            IN  \A a, b \in DOMAIN locs :
                    a < b => LocationLess(locs[a], locs[b])

\* "book" was found in b.py, then twice in a.html, twice with the same
\* comment: its entry lists a.html first and has the comment once.
TemplateBuildSeen ==
    /\ last.op = "extract_messages"
    /\ Len(Extracted) = 3 /\ ExtractedIds = {"book"}
    /\ LocationAt(1) = <<"b.py", 2>>
    /\ Entry(pot, "book").locations =
            <<<<"a.html", 1>>, <<"a.html", 2>>, <<"b.py", 2>>>>
    /\ Entry(pot, "book").auto_comments = <<"a title">>

(***************************************************************************)
(* From the catalog to the page.  The template holds "book" and plural     *)
(* "item", or was never extracted; "fr" has nothing, an empty directory,   *)
(* or a catalog of the earlier template.  The catalog is seeded or         *)
(* synchronized, translators type forms, it is compiled, and a process     *)
(* that has loaded nothing yet resolves strings under "fr".                *)
(***************************************************************************)
InitEndToEnd ==
    /\ pot \in {NoFile, ServedTemplate}
    /\ \E c \in {NoFile} \cup EarlierCatalogs("fr") :
            po = [l \in Locales |-> IF l = "fr" THEN c ELSE NoFile]
    /\ dirs \in {{}, {"fr"}}
    /\ po["fr"] # NoFile => "fr" \in dirs
    /\ mo = [l \in Locales |-> NoFile]
    /\ lang = "fr"
    /\ memo_translations = [l \in Langs |-> Unset]
    /\ memo_locale = [l \in Langs |-> Unset]
    /\ reads = [l \in Langs |-> 0]
    /\ lazy = NoLazy
    /\ close_matches = CloseMatches
    /\ threads = [t \in Threads |-> Idle]
    /\ running = [l \in Langs |-> Nobody]
    /\ last = [op |-> "start"]

Served == {<<"fr">>}
SeedServed == \E args \in Served : generate_po(args)
SyncServed == \E ls \in Served : update_translations(ls, NoFault)
CompileServed == \E ls \in Served : compile_translations(ls, NoFault)
TypeServed ==
    \E i \in 1..Len(ServedOccurrences), k \in 1..num_plurals :
        Translate("fr", i, k)
ResolveServed == \E s \in Messages, fb \in BOOLEAN : gettext(s, "none", fb)
ResolvePluralServed ==
    \E s \in Messages, n \in 0..MaxCount : ungettext(s, PluralId(s), n, "none")

NextEndToEnd ==
    \/ SeedServed \/ SyncServed \/ CompileServed \/ TypeServed
    \/ ResolveServed \/ ResolvePluralServed

SpecEndToEnd == InitEndToEnd /\ [][NextEndToEnd]_vars

(***************************************************************************)
(* Properties from the catalog to the page.                                *)
(***************************************************************************)
\* The process holds for the locale the load of a binary that is the
\* compilation of the working catalog as it stands.
UpToDate(l) ==
    /\ l \in Locales /\ po[l] # NoFile
    /\ mo[l] \notin {NoFile, Truncated} /\ mo[l] = CompilationOf(l)
    /\ Cached(l) /\ memo_translations[l].value = Translations(mo[l])
\* The form of message m the working catalog of l holds for count n (the
\* first form when there is no count) is empty.
EmptyForm(l, m, n) ==
    /\ Has(po[l], m)
    /\ LET e == Entry(po[l], m)
       IN  e.string[IF e.pl THEN plural(n) + 1 ELSE 1] = ""

\* C19: untranslated entries degrade to the source string.  A lookup in a
\* process that loaded the compilation of the working catalog returns,
\* for a message whose form in the working catalog is empty, the source
\* string (the plural source for a count other than one), never the empty
\* string, and raises nothing.
UntranslatedDegrades ==
    UpToDate(lang) =>
        /\ (last.op = "gettext" /\ EmptyForm(lang, last.string, 1)) =>
                ~last.raised /\ last.value = last.string
        /\ (last.op = "ungettext" /\ EmptyForm(lang, last.s1, last.n)) =>
                /\ ~last.raised
                /\ last.value = IF last.n = 1 THEN last.s1 ELSE last.s2
        /\ last.op \in {"gettext", "ungettext"} => last.value # ""

\* "item" stands untranslated in the catalog beside a translated "book";
\* compiled and loaded, its plural resolved to the plural source.
UntranslatedDegradesSeen ==
    /\ UpToDate("fr") /\ lang = "fr"
    /\ last.op = "ungettext" /\ last.s1 = "item" /\ last.n = 2
    /\ EmptyForm("fr", "item", 2)
    /\ ~EmptyForm("fr", "book", 1)
    /\ last.value = PluralId("item")

(***************************************************************************)
(* Request threads of one serving process looking up "fr" (which has a     *)
(* complete catalog, and a messages.mo that is missing or was compiled     *)
(* earlier) and "xx" (which has nothing), while a compilation of "fr" goes *)
(* on beside them.                                                         *)
(***************************************************************************)
ThreadLangs == {"fr", "xx"}

InitThreads ==
    /\ pot = ServedTemplate
    /\ dirs = {"fr"}
    /\ po = [l \in Locales |-> IF l = "fr" THEN ServedCatalog ELSE NoFile]
    /\ mo \in {[l \in Locales |-> IF l = "fr" THEN m ELSE NoFile] :
                    m \in {NoFile, write_mo(read_po(EarlierCatalog))}}
    /\ lang = "en"
    /\ memo_translations = [l \in Langs |-> Unset]
    /\ memo_locale = [l \in Langs |-> Unset]
    /\ reads = [l \in Langs |-> 0]
    /\ lazy = NoLazy
    /\ close_matches = CloseMatches
    /\ threads = [t \in Threads |-> Idle]
    /\ running = [l \in Langs |-> Nobody]
    /\ last = [op |-> "start"]

Enters ==
    \E t \in Threads, l \in ThreadLangs :
        /\ memo_translations[l] = Unset => reads[l] < MaxReads
        /\ Enter(t, l)
Checks == \E t \in Threads : Check(t)
Acquires == \E t \in Threads : Acquire(t)
Loads == \E t \in Threads : Load(t)
Stores == \E t \in Threads : Store(t)
Returns == \E t \in Threads : Return(t)

NextThreads ==
    \/ Enters \/ Checks \/ Acquires \/ Loads \/ Stores \/ Returns
    \/ Recompile

SpecThreads == InitThreads /\ [][NextThreads]_vars

(***************************************************************************)
(* Properties of concurrent lookups.                                       *)
(***************************************************************************)
\* What load_translations can return of the files of this process: None,
\* or the whole of a messages.mo that a compilation completed.
FullyLoaded ==
    {None, Translations(write_mo(read_po(EarlierCatalog))),
     Translations(write_mo(read_po(ServedCatalog)))}
Callers == {t \in Threads : threads[t].pc # "idle"}
Returned(t) == t \in Callers /\ threads[t].out = "returned"

\* C17: concurrent cache population.  Every caller that returns returns a
\* fully loaded value or None, and a caller raises only when its own load
\* met the empty file of an unfinished compilation; the cache never holds
\* anything but one fully loaded value or None per locale, and holds it
\* once a caller has returned; a lookup that starts when the locale is
\* cached and no other lookup is under way returns the cached value, loads
\* nothing and leaves the cache as it is.
CachePopulation ==
    /\ \A l \in Langs :
            memo_translations[l] # Unset =>
                memo_translations[l].value \in FullyLoaded
    /\ \A t \in Callers :
        LET c == threads[t]
        IN  /\ c.out = "returned" =>
                /\ c.result \in FullyLoaded
                /\ memo_translations[c.lang] # Unset
            /\ c.out = "raised" => c.value = Failed
            /\ c.later =>
                /\ ~c.ran /\ c.out # "raised"
                /\ reads[c.lang] = c.reads0
                /\ memo_translations[c.lang] = c.seen
                /\ c.out = "returned" => c.result = c.seen.value

\* Both threads missed the cache for "fr" and each loaded the file; the
\* file was recompiled in between, the second load replaced the first in
\* the cache, and each thread returned a complete catalog.
CachePopulationSeen ==
    /\ \A t \in Threads :
            /\ Returned(t) /\ threads[t].lang = "fr" /\ threads[t].ran
            /\ threads[t].result # None
    /\ threads["t1"].value # threads["t2"].value
    /\ threads["t1"].result = threads["t1"].value
    /\ memo_translations["fr"].value = threads["t2"].value
    /\ reads["fr"] = 2

====
